---- MODULE Spec2Model ----
(***************************************************************************)
(* LiveTranscriber (transcripts_pipeline/pipeline/transcriptiongenerator). *)
(* The configuration file `config` the session is constructed from, one    *)
(* session object `self`, the PyAudio library state `lib`, and the         *)
(* generator returned by run() or by a direct call of transcribe_stream(): *)
(* its position `pc`, the frame in hand, the events it has yielded, and    *)
(* the exception in flight while the finally block of run() runs.          *)
(*                                                                         *)
(* One caller drives the session: it calls load_model, setup_audio_stream, *)
(* start_recognition and cleanup while no generator is live, and           *)
(* otherwise iterates or closes the generator.  The body of run() is split *)
(* at its calls (load, setup, start, read, sink, feed, finally), so that   *)
(* the order of those calls is visible in the states.                      *)
(*                                                                         *)
(* The repository's two scripts are separate programs with a specification *)
(* each: check() of fix.py (`chk`) and stream_audio() of fakesound.py      *)
(* (`fwd`).                                                                *)
(***************************************************************************)
EXTENDS Integers, Sequences, FiniteSets, TLC

VARIABLES config, self, lib, gen, events, refEvents, trace, fed, last, chk, fwd

\* The LiveTranscriber program; the two stand-alone scripts of the repository,
\* the websocket checker (fix.py) and the microphone forwarder (fakesound.py).
session == <<config, self, lib, gen, events, refEvents, trace, fed, last>>

scripts == <<chk, fwd>>

vars == <<session, scripts>>

\* ------------------------------------------------------------------ bounds
\* Frames one run() reads; PyAudio instances the library lets the session create.
MaxFrames == 2

MaxOpens == 2

\* The scripted recognizer: frames one run() reads from it, and the period
\* of its completion signal.
StubFrames == 10

StubK == 5

\* Blocks the audio thread of the forwarder delivers.
MaxBlocks == 4

\* ------------------------------------------------------------- value sets
None == 0

\* The values json.loads(...)[key] takes: sequences of characters.
Vals == {<<" ">>, <<"a">>, <<" ", "a", " ">>}

\* What the recognizer's Result()/PartialResult() call gives once parsed:
\* ok = FALSE when the call or json.loads raises; key = "" for a dict that
\* lacks the key.
RaisingPayload == [ok |-> FALSE, key |-> "", val |-> <<>>]

EmptyDict == [ok |-> TRUE, key |-> "", val |-> <<>>]

PayloadsOf(key) == {RaisingPayload, EmptyDict} \cup {[ok |-> TRUE, key |-> key, val |-> v] : v \in Vals}

\* What the recognizer does with one frame: AcceptWaveform returns True or
\* False, raises an Exception, or is interrupted by the user; then the payload
\* of the result call that follows.
Responses ==
    {[accept |-> "raise", payload |-> RaisingPayload], [accept |-> "interrupt", payload |-> RaisingPayload]}
    \cup {[accept |-> "true", payload |-> pl] : pl \in PayloadsOf("text")}
    \cup {[accept |-> "false", payload |-> pl] : pl \in PayloadsOf("partial")}

NoFrame == [id |-> 0, resp |-> [accept |-> "raise", payload |-> RaisingPayload]]

\* The audio_callback argument of run(): None, a callback whose calls return,
\* raise or are interrupted, or a callback that raises on every call.
Callbacks == {"none", "any", "failing"}

SinkOutcomes(cb) == IF cb = "failing" THEN {"raise"} ELSE {"ok", "raise", "interrupt"}

\* ----------------------------------------------------------- str.strip()
RECURSIVE LStrip(_)
LStrip(s) == IF s = <<>> THEN s ELSE IF Head(s) = " " THEN LStrip(Tail(s)) ELSE s

RECURSIVE RStrip(_)
RStrip(s) == IF s = <<>> THEN s ELSE IF s[Len(s)] = " " THEN RStrip(SubSeq(s, 1, Len(s) - 1)) ELSE s

Strip(s) == RStrip(LStrip(s))

\* dict.get(key, "")
Get(payload, key) == IF payload.key = key THEN payload.val ELSE <<>>

\* ------------------------------------------ the recognizer step of a frame
\* transcribe_stream, the try block that feeds one frame to Vosk: what it
\* does with the recognizer's response. kind "event": an event is yielded;
\* "skip": nothing is yielded; "error": the except Exception handler logs and
\* continues; "interrupt": KeyboardInterrupt leaves the loop. fetch lists the
\* result calls made on the recognizer for the frame.
\* Mutant: the final text is yielded as fetched, neither trimmed nor tested.
FinalBranchUnchecked(payload) ==
    IF ~payload.ok THEN [kind |-> "error", type |-> "", text |-> <<>>, fetch |-> <<"Result">>]
    ELSE [kind |-> "event", type |-> "final", text |-> Get(payload, "text"), fetch |-> <<"Result">>]

\* Mutant: when the final text is empty the partial result (here "a") is
\* fetched and yielded instead.
FinalBranchPartialFallback(payload) ==
    IF ~payload.ok THEN [kind |-> "error", type |-> "", text |-> <<>>, fetch |-> <<"Result">>]
    ELSE LET text == Strip(Get(payload, "text"))
         IN IF text # <<>> THEN [kind |-> "event", type |-> "final", text |-> text, fetch |-> <<"Result">>]
            ELSE [kind |-> "event", type |-> "partial", text |-> <<"a">>, fetch |-> <<"Result", "PartialResult">>]

FinalBranch(payload) ==
    IF ~payload.ok THEN [kind |-> "error", type |-> "", text |-> <<>>, fetch |-> <<"Result">>]
    ELSE LET text == Strip(Get(payload, "text"))
         IN IF text # <<>> THEN [kind |-> "event", type |-> "final", text |-> text, fetch |-> <<"Result">>]
            ELSE [kind |-> "skip", type |-> "", text |-> <<>>, fetch |-> <<"Result">>]

\* Mutant: the partial branch labels its event "final".
PartialBranchAsFinal(payload) ==
    IF ~payload.ok THEN [kind |-> "error", type |-> "", text |-> <<>>, fetch |-> <<"PartialResult">>]
    ELSE LET ptxt == Strip(Get(payload, "partial"))
         IN IF ptxt # <<>> THEN [kind |-> "event", type |-> "final", text |-> ptxt, fetch |-> <<"PartialResult">>]
            ELSE [kind |-> "skip", type |-> "", text |-> <<>>, fetch |-> <<"PartialResult">>]

PartialBranch(payload) ==
    IF ~payload.ok THEN [kind |-> "error", type |-> "", text |-> <<>>, fetch |-> <<"PartialResult">>]
    ELSE LET ptxt == Strip(Get(payload, "partial"))
         IN IF ptxt # <<>> THEN [kind |-> "event", type |-> "partial", text |-> ptxt, fetch |-> <<"PartialResult">>]
            ELSE [kind |-> "skip", type |-> "", text |-> <<>>, fetch |-> <<"PartialResult">>]

\* Mutant: the test of AcceptWaveform's result is inverted.
ClassifyInverted(resp) ==
    CASE resp.accept = "interrupt" -> [kind |-> "interrupt", type |-> "", text |-> <<>>, fetch |-> <<>>]
      [] resp.accept = "raise" -> [kind |-> "error", type |-> "", text |-> <<>>, fetch |-> <<>>]
      [] resp.accept = "true" -> PartialBranch(resp.payload)
      [] resp.accept = "false" -> FinalBranch(resp.payload)

Classify(resp) ==
    CASE resp.accept = "interrupt" -> [kind |-> "interrupt", type |-> "", text |-> <<>>, fetch |-> <<>>]
      [] resp.accept = "raise" -> [kind |-> "error", type |-> "", text |-> <<>>, fetch |-> <<>>]
      [] resp.accept = "true" -> FinalBranch(resp.payload)
      [] resp.accept = "false" -> PartialBranch(resp.payload)

\* Mutant: the handler of a recognizer error yields an event too.
EmittedAlsoOnError(frame) ==
    LET c == Classify(frame.resp)
    IN IF c.kind = "event" THEN <<[type |-> c.type, text |-> c.text, frame |-> frame.id]>>
       ELSE IF c.kind = "error" THEN <<[type |-> "partial", text |-> <<"a">>, frame |-> frame.id]>>
       ELSE <<>>

\* The events one frame adds to the yielded sequence.
Emitted(frame) ==
    LET c == Classify(frame.resp)
    IN IF c.kind = "event" THEN <<[type |-> c.type, text |-> c.text, frame |-> frame.id]>> ELSE <<>>

\* Mutant: a recognizer error is not caught inside the loop.
AfterFeedErrorStops(kind) ==
    CASE kind = "event" -> "yielded"
      [] kind = "skip" -> "read"
      [] kind = "error" -> "fatal"
      [] kind = "interrupt" -> "stopped"

\* Mutant: the handler of the recognizer step catches KeyboardInterrupt too.
AfterFeedInterruptContinues(kind) ==
    CASE kind = "event" -> "yielded"
      [] kind = "skip" -> "read"
      [] kind = "error" -> "read"
      [] kind = "interrupt" -> "read"

\* Where the loop goes after the recognizer step.
AfterFeed(kind) ==
    CASE kind = "event" -> "yielded"
      [] kind = "skip" -> "read"
      [] kind = "error" -> "read"
      [] kind = "interrupt" -> "stopped"

\* Mutant: the sink is never called.
AfterReadSkipsSink(cb) == "feed"

\* Mutant: the test of audio_callback is inverted.
AfterReadInverted(cb) == IF cb = "none" THEN "sink" ELSE "feed"

\* Where the loop goes after the blocking read returned a frame:
\* `if audio_callback:` calls the sink first.
AfterRead(cb) == IF cb = "none" THEN "feed" ELSE "sink"

\* Mutant: an exception of the sink is not caught around the call.
AfterSinkRaisePropagates(outcome) ==
    CASE outcome = "ok" -> "feed"
      [] outcome = "raise" -> "fatal"
      [] outcome = "interrupt" -> "stopped"

\* Where the loop goes after the sink call: an Exception is logged and the
\* frame is fed to Vosk; a KeyboardInterrupt leaves the loop.
AfterSink(outcome) ==
    CASE outcome = "ok" -> "feed"
      [] outcome = "raise" -> "feed"
      [] outcome = "interrupt" -> "stopped"

\* Mutant: the outer handler swallows every exception, not only
\* KeyboardInterrupt.
LoopExitSwallowsAll(exc) == "return"

\* What the outer handlers of transcribe_stream make of an exception that
\* leaves the loop: KeyboardInterrupt is swallowed (the generator returns),
\* any other Exception is logged and re-raised.
LoopExit(exc) == IF exc = "KeyboardInterrupt" THEN "return" ELSE exc

\* Mutant: the guard looks at the stream only.
StreamReadyStreamOnly(s) == ~(s.stream = None)

\* The guard at the top of transcribe_stream.
StreamReady(s) == ~(s.stream = None \/ s.recognizer = "None")

\* ----------------------------------------------------- the two scripts
\* check() of fix.py before its first statement: the host index of the TCP
\* loop, the reachable host, the raw response, what try_websocket did, the
\* value returned, and the network calls made so far.
NoRaw == [none |-> TRUE, toks |-> <<>>]

NewCheck ==
    [pc |-> "tcp", i |-> 1, reachable |-> "", raw |-> NoRaw, ws |-> "untried", ping |-> "none",
     result |-> "none", steps |-> <<>>]

\* stream_audio() of fakesound.py before its first statement: the position
\* of the coroutine, the connection, the microphone stream, the blocks the
\* audio thread has delivered, the sends it has scheduled on the event loop
\* and that have not run yet, and the messages written to the websocket.
NewForward ==
    [pc |-> "connect", conn |-> "none", mic |-> "off", blocks |-> 0, queue |-> <<>>, wire |-> <<>>]

\* ----------------------------------------------------------- ConfigManager
\* A configuration file: whether it is found, whether it has the required
\* sections, whether [vosk] has MODEL_PATH and its value, and whether [audio]
\* has the keys setup_audio_stream and start_recognition read.
ModelPaths == {"", "model"}

FullConfig == [found |-> TRUE, sections |-> TRUE, has_model_path |-> TRUE, model_path |-> "model", has_audio |-> TRUE]

ConfigFiles ==
    {FullConfig,
     [FullConfig EXCEPT !.found = FALSE],
     [FullConfig EXCEPT !.sections = FALSE],
     [FullConfig EXCEPT !.model_path = ""],
     [FullConfig EXCEPT !.has_model_path = FALSE, !.model_path = ""],
     [FullConfig EXCEPT !.has_audio = FALSE]}

\* Mutant: _validate_config also requires the keys.
ConfigManagerValidatesKeys(c) ==
    IF ~c.found THEN "FileNotFoundError"
    ELSE IF ~c.sections \/ ~c.has_model_path \/ ~c.has_audio THEN "ValueError"
    ELSE "none"

\* ConfigManager.__init__: the error it raises, "none" when it returns.
\* _validate_config looks at the sections only.
ConfigManager(c) ==
    IF ~c.found THEN "FileNotFoundError"
    ELSE IF ~c.sections THEN "ValueError"
    ELSE "none"

\* The property vosk_model_path: config.get raises NoOptionError when the
\* key is missing.
vosk_model_path(c) ==
    IF c.has_model_path THEN [err |-> "none", val |-> c.model_path]
    ELSE [err |-> "NoOption(MODEL_PATH)", val |-> ""]

\* ------------------------------------------------------- session methods
\* Each returns the session, the library state and the error raised ("none"
\* when the call returns).

\* Mutant: the model path is handed to Model() without the test for an empty
\* one.
load_modelAnyPath(s, c, ctor) ==
    IF vosk_model_path(c).err # "none" THEN [s |-> s, err |-> vosk_model_path(c).err]
    ELSE IF ctor = "raise" THEN [s |-> s, err |-> "ModelError"]
    ELSE [s |-> [s EXCEPT !.model = "Model"], err |-> "none"]

\* load_model: reads config.vosk_model_path, which raises when the key is
\* missing; an empty path is refused; ctor is what Model(path) does.
load_model(s, c, ctor) ==
    IF vosk_model_path(c).err # "none" THEN [s |-> s, err |-> vosk_model_path(c).err]
    ELSE IF vosk_model_path(c).val = "" THEN [s |-> s, err |-> "FileNotFoundError"]
    ELSE IF ctor = "raise" THEN [s |-> s, err |-> "ModelError"]
    ELSE [s |-> [s EXCEPT !.model = "Model"], err |-> "none"]

\* Mutant: the PyAudio instance is kept in a local variable, not in self.p.
setupLocalBackend(s, l, outcome) ==
    IF outcome = "pa_fail" THEN [s |-> s, l |-> l, err |-> "DeviceError"]
    ELSE LET h == l.made + 1
             l1 == [l EXCEPT !.made = h, !.open = @ \cup {h}]
         IN IF outcome = "key_fail" THEN [s |-> s, l |-> l1, err |-> "NoOption(audio)"]
            ELSE IF outcome = "open_fail" THEN [s |-> s, l |-> l1, err |-> "DeviceError"]
            ELSE [s |-> [s EXCEPT !.stream = h], l |-> [l1 EXCEPT !.streams = @ \cup {h}], err |-> "none"]

\* Mutant: the stream p.open(...) returns is not assigned to self.stream.
setupDropsStream(s, l, outcome) ==
    IF outcome = "pa_fail" THEN [s |-> s, l |-> l, err |-> "DeviceError"]
    ELSE LET h == l.made + 1
             l1 == [l EXCEPT !.made = h, !.open = @ \cup {h}]
             s1 == [s EXCEPT !.p = h]
         IN IF outcome = "key_fail" THEN [s |-> s1, l |-> l1, err |-> "NoOption(audio)"]
            ELSE IF outcome = "open_fail" THEN [s |-> s1, l |-> l1, err |-> "DeviceError"]
            ELSE [s |-> s1, l |-> [l1 EXCEPT !.streams = @ \cup {h}], err |-> "none"]

\* setup_audio_stream: outcome "pa_fail" when pyaudio.PyAudio() raises,
\* "key_fail" when reading the audio settings raises (after self.p is set),
\* "open_fail" when p.open(...) raises, "ok" otherwise. self.p and self.stream
\* are assigned without looking at what they held.
setup_audio_stream(s, l, outcome) ==
    IF outcome = "pa_fail" THEN [s |-> s, l |-> l, err |-> "DeviceError"]
    ELSE LET h == l.made + 1
             l1 == [l EXCEPT !.made = h, !.open = @ \cup {h}]
             s1 == [s EXCEPT !.p = h]
         IN IF outcome = "key_fail" THEN [s |-> s1, l |-> l1, err |-> "NoOption(audio)"]
            ELSE IF outcome = "open_fail" THEN [s |-> s1, l |-> l1, err |-> "DeviceError"]
            ELSE [s |-> [s1 EXCEPT !.stream = h], l |-> [l1 EXCEPT !.streams = @ \cup {h}], err |-> "none"]

\* What the word-timing block of start_recognition meets: `wanted` is what
\* config.vosk_enable_word_timing gives ("raise" when reading it raises; the
\* config object is duck-typed, so each call may meet another value),
\* `supported` whether the recognizer has SetWords, `raises` whether
\* SetWords(True) raises.
Toggles == [wanted : {"true", "false", "raise"}, supported : BOOLEAN, raises : BOOLEAN]

NoToggle == [wanted |-> "false", supported |-> FALSE, raises |-> FALSE]

\* Mutant: SetWords(True) is called without the try around it and outside
\* the outer one.
WordTimingUnguarded(t) ==
    IF t.wanted = "true" /\ t.supported
    THEN [calls |-> <<"SetWords">>, err |-> IF t.raises THEN "SetWordsError" ELSE "none"]
    ELSE [calls |-> <<>>, err |-> "none"]

\* The word-timing block: SetWords(True) is called when the config asks for
\* word timing and the recognizer has the method; an exception of SetWords
\* or of the config read is swallowed.
WordTiming(t) ==
    IF t.wanted = "true" /\ t.supported THEN [calls |-> <<"SetWords">>, err |-> "none"]
    ELSE [calls |-> <<>>, err |-> "none"]

\* start_recognition: ctor is "key_fail" when reading config.sample_rate
\* raises, and otherwise what KaldiRecognizer(model, rate) does; the
\* recognizer is assigned before the word-timing block runs. calls lists
\* the calls made on the new recognizer.
start_recognition(s, ctor, t) ==
    IF s.model = "None" THEN [s |-> s, err |-> "RuntimeError", calls |-> <<>>]
    ELSE IF ctor = "key_fail" THEN [s |-> s, err |-> "NoOption(audio)", calls |-> <<>>]
    ELSE IF ctor = "raise" THEN [s |-> s, err |-> "RecognizerError", calls |-> <<>>]
    ELSE [s |-> [s EXCEPT !.recognizer = "Rec"], err |-> WordTiming(t).err, calls |-> WordTiming(t).calls]

\* Whether an exception of stop_stream(), close() or terminate() leaves its
\* own try block: each sits in try/except Exception: pass, so none does.
Escapes(raised) == FALSE

\* Mutant: the PyAudio instance is neither terminated nor cleared.
cleanupKeepsBackend(s, l, outs) ==
    LET hasS == s.stream # None
    IN [s |-> IF hasS THEN [s EXCEPT !.stream = None] ELSE s,
        l |-> IF hasS THEN [l EXCEPT !.streams = @ \ {s.stream}] ELSE l,
        order |-> IF hasS THEN <<"stream">> ELSE <<>>,
        err |-> "none"]

\* cleanup: outs says which of stop_stream, close and terminate raise. The
\* stream is stopped and closed first and self.stream cleared, then the
\* PyAudio instance is terminated and self.p cleared; close and terminate
\* release the handle whether or not they raise. An exception that escaped
\* would be caught by the outer except Exception, which ends the method:
\* cleanup never raises. order lists what was released, in order. self.model
\* and self.recognizer are not touched.
cleanup(s, l, outs) ==
    LET hasS == s.stream # None
        escS == hasS /\ (Escapes(outs.stop) \/ Escapes(outs.close))
        l1 == IF hasS /\ ~Escapes(outs.stop) THEN [l EXCEPT !.streams = @ \ {s.stream}] ELSE l
        s1 == IF hasS /\ ~escS THEN [s EXCEPT !.stream = None] ELSE s
        o1 == IF hasS /\ ~Escapes(outs.stop) THEN <<"stream">> ELSE <<>>
        hasP == ~escS /\ s1.p # None
        escP == hasP /\ Escapes(outs.term)
        l2 == IF hasP THEN [l1 EXCEPT !.open = @ \ {s1.p}] ELSE l1
        s2 == IF hasP /\ ~escP THEN [s1 EXCEPT !.p = None] ELSE s1
        o2 == IF hasP THEN o1 \o <<"pa">> ELSE o1
    IN [s |-> s2, l |-> l2, order |-> o2, err |-> "none"]

CleanupOuts == [stop : BOOLEAN, close : BOOLEAN, term : BOOLEAN]

\* ------------------------------------------------------------------ state
\* __init__: no model, recognizer, stream or PyAudio instance.
NewSession == [model |-> "None", recognizer |-> "None", stream |-> None, p |-> None]

\* The generator object run() returns; nothing of its body has run yet.
\* rerun records that run() was called on a session whose previous run() had
\* ended with its cleanup.
NewGen(cb) ==
    [kind |-> "run", rerun |-> FALSE, pc |-> "created", cb |-> cb, started |-> FALSE, data |-> NoFrame, nread |-> 0,
     raised |-> "none", pending |-> "none", surfaced |-> "none", cleanups |-> 0]

\* The generator object transcribe_stream() returns when the caller calls it
\* directly.
StreamGen(cb) == [NewGen(cb) EXCEPT !.kind = "stream"]

NoGen == [NewGen("none") EXCEPT !.pc = "none"]

\* No generator of run() is live: none was created, or the last one has ended.
Idle == gen.pc \in {"none", "done"}

\* The last call made: its error, for cleanup and start_recognition the calls
\* it made on the library in order, and for start_recognition what its
\* word-timing block met.
Did(op, err) == [op |-> op, err |-> err, order |-> <<>>, arg |-> NoToggle]

\* LiveTranscriber(path): the ConfigManager is constructed first; when it
\* raises there is no session, and no call is ever made on one.
Init ==
    /\ config \in ConfigFiles
    /\ self = NewSession
    /\ lib = [made |-> 0, open |-> {}, streams |-> {}]
    /\ gen = NoGen
    /\ events = <<>>
    /\ refEvents = <<>>
    /\ trace = <<>>
    /\ fed = <<>>
    /\ last = Did("init", ConfigManager(config))
    /\ chk = NewCheck
    /\ fwd = NewForward

\* LiveTranscriber(path) ran: ConfigManager(path) returned.
Constructed == ConfigManager(config) = "none"

\* What the environment and the configuration let the calls do, within the
\* bounds.
Ctors == {"ok", "raise"}

StartOutcomes == IF config.has_audio THEN Ctors ELSE {"key_fail"}

SetupOutcomes ==
    IF lib.made >= MaxOpens THEN {"pa_fail"}
    ELSE IF config.has_audio THEN {"pa_fail", "open_fail", "ok"}
    ELSE {"pa_fail", "key_fail"}

\* Mutant: cleanup is called from an except clause that misses the errors
\* transcribe_stream re-raises, instead of from finally.
TryExitErrorsSkipFinally(g, raised, exc) ==
    IF exc \in {"return", "GeneratorExit"} THEN [g EXCEPT !.pc = "finally", !.raised = raised, !.pending = exc]
    ELSE [g EXCEPT !.pc = "exit", !.raised = raised, !.pending = exc]

\* Mutant: cleanup is called after the for loop instead of from finally, so
\* GeneratorExit passes it by.
TryExitCloseSkipsFinally(g, raised, exc) ==
    IF exc = "GeneratorExit" THEN [g EXCEPT !.pc = "exit", !.raised = raised, !.pending = exc]
    ELSE [g EXCEPT !.pc = "finally", !.raised = raised, !.pending = exc]

\* The try block of run() is left: `raised` is what was raised inside it, `exc`
\* what is in flight once the handlers inside it have run ("return" when the
\* body ran off its end). The finally block is next.
TryExit(g, raised, exc) == [g EXCEPT !.pc = "finally", !.raised = raised, !.pending = exc]

\* transcribe_stream is left with `exc` in flight: into the try block of run()
\* when run() iterates it, and straight to the caller when the caller does.
Leave(g, raised, exc) ==
    IF g.kind = "run" THEN TryExit(g, raised, exc)
    ELSE [g EXCEPT !.pc = "exit", !.raised = raised, !.pending = exc]

\* ------------------------------------------------- the caller's operations
\* A call on the session outside a run: a generator that has ended, and what
\* it yielded, is dropped.
DropGen ==
    /\ gen' = NoGen
    /\ events' = <<>>
    /\ refEvents' = <<>>
    /\ trace' = <<>>
    /\ fed' = <<>>

\* The last run() on the session is over and its finally block has run.
Closed == gen.kind = "run" /\ gen.pc = "done" /\ gen.cleanups >= 1

\* t.run(audio_callback): creates the generator, whatever the session has
\* been through.
RunCall(cb) ==
    /\ Constructed
    /\ Idle
    /\ gen' = [NewGen(cb) EXCEPT !.rerun = Closed]
    /\ events' = <<>>
    /\ refEvents' = <<>>
    /\ trace' = <<>>
    /\ fed' = <<>>
    /\ last' = Did("run", "none")
    /\ UNCHANGED <<scripts, config, self, lib>>

\* t.transcribe_stream(audio_callback), called by the caller: creates the
\* generator; none of its body, the guard included, runs before next().
StreamCall(cb) ==
    /\ Constructed
    /\ Idle
    /\ gen' = StreamGen(cb)
    /\ events' = <<>>
    /\ refEvents' = <<>>
    /\ trace' = <<>>
    /\ fed' = <<>>
    /\ last' = Did("transcribe_stream", "none")
    /\ UNCHANGED <<scripts, config, self, lib>>

\* next(g): starts the body, or resumes it after the yield.
GenNext ==
    /\ gen.pc \in {"created", "yielded"}
    /\ gen' = IF gen.pc = "created"
              THEN [gen EXCEPT !.pc = IF gen.kind = "run" THEN "load" ELSE "check", !.started = TRUE]
              ELSE [gen EXCEPT !.pc = "read"]
    /\ last' = Did("next", "none")
    /\ UNCHANGED <<scripts, config, self, lib, events, refEvents, trace, fed>>

\* g.close(), or the generator being dropped: GeneratorExit is raised at the
\* yield, which no handler of transcribe_stream or run() catches; a generator
\* that never started just ends.
GenClose ==
    /\ gen.pc \in {"created", "yielded"}
    /\ gen' = IF gen.pc = "created" THEN [gen EXCEPT !.pc = "done", !.surfaced = "closed"]
              ELSE Leave(gen, "GeneratorExit", "GeneratorExit")
    /\ last' = Did("close", "none")
    /\ UNCHANGED <<scripts, config, self, lib, events, refEvents, trace, fed>>

CallLoadModel ==
    /\ Constructed
    /\ Idle
    /\ \E ctor \in Ctors :
         LET r == load_model(self, config, ctor)
         IN /\ self' = r.s
            /\ last' = Did("load_model", r.err)
    /\ DropGen
    /\ UNCHANGED <<scripts, config, lib>>

CallSetupAudioStream ==
    /\ Constructed
    /\ Idle
    /\ \E outcome \in SetupOutcomes :
         LET r == setup_audio_stream(self, lib, outcome)
         IN /\ self' = r.s
            /\ lib' = r.l
            /\ last' = Did("setup_audio_stream", r.err)
    /\ DropGen
    /\ UNCHANGED <<scripts, config>>

CallStartRecognition ==
    /\ Constructed
    /\ Idle
    /\ \E ctor \in StartOutcomes, t \in Toggles :
         LET r == start_recognition(self, ctor, t)
         IN /\ self' = r.s
            /\ last' = [op |-> "start_recognition", err |-> r.err, order |-> r.calls, arg |-> t]
    /\ DropGen
    /\ UNCHANGED <<scripts, config, lib>>

CallCleanup ==
    /\ Constructed
    /\ Idle
    /\ \E outs \in CleanupOuts :
         LET r == cleanup(self, lib, outs)
         IN /\ self' = r.s
            /\ lib' = r.l
            /\ last' = [Did("cleanup", r.err) EXCEPT !.order = r.order]
    /\ DropGen
    /\ UNCHANGED <<scripts, config>>

\* ------------------------------------------------------ the body of run()
\* Each setup call of run(): on an error the try block is left with it.
GenLoad ==
    /\ gen.pc = "load"
    /\ \E ctor \in Ctors :
         LET r == load_model(self, config, ctor)
         IN /\ self' = r.s
            /\ gen' = IF r.err = "none" THEN [gen EXCEPT !.pc = "setup"] ELSE TryExit(gen, r.err, r.err)
            /\ last' = Did("load_model", r.err)
    /\ UNCHANGED <<scripts, config, lib, events, refEvents, trace, fed>>

GenSetup ==
    /\ gen.pc = "setup"
    /\ \E outcome \in SetupOutcomes :
         LET r == setup_audio_stream(self, lib, outcome)
         IN /\ self' = r.s
            /\ lib' = r.l
            /\ gen' = IF r.err = "none" THEN [gen EXCEPT !.pc = "start"] ELSE TryExit(gen, r.err, r.err)
            /\ last' = Did("setup_audio_stream", r.err)
    /\ UNCHANGED <<scripts, config, events, refEvents, trace, fed>>

GenStart ==
    /\ gen.pc = "start"
    /\ \E ctor \in StartOutcomes, t \in Toggles :
         LET r == start_recognition(self, ctor, t)
         IN /\ self' = r.s
            /\ gen' = IF r.err = "none" THEN [gen EXCEPT !.pc = "check"] ELSE TryExit(gen, r.err, r.err)
            /\ last' = [op |-> "start_recognition", err |-> r.err, order |-> r.calls, arg |-> t]
    /\ UNCHANGED <<scripts, config, lib, events, refEvents, trace, fed>>

\* transcribe_stream starts: its guard, before the loop.
GenCheck ==
    /\ gen.pc = "check"
    /\ gen' = IF StreamReady(self) THEN [gen EXCEPT !.pc = "read"] ELSE Leave(gen, "RuntimeError", "RuntimeError")
    /\ last' = Did("transcribe_stream", "none")
    /\ UNCHANGED <<scripts, config, self, lib, events, refEvents, trace, fed>>

\* stream.read(...): returns a frame (the recognizer's response to it is
\* fixed with the frame, one of R[id]), raises a device error, or is
\* interrupted; limit bounds the frames of one generator.
\* refEvents follows the same frames through a loop without a sink.
Read(limit, R) ==
    /\ gen.pc = "read"
    /\ \/ /\ gen.nread < limit
          /\ \E resp \in R[gen.nread + 1] :
               LET frame == [id |-> gen.nread + 1, resp |-> resp]
               IN /\ gen' = [gen EXCEPT !.pc = AfterRead(gen.cb), !.data = frame, !.nread = frame.id]
                  /\ refEvents' = refEvents \o Emitted(frame)
                  /\ trace' = Append(trace, [op |-> "read", frame |-> frame.id])
       \/ /\ \E exc \in {"ReadError", "KeyboardInterrupt"} : gen' = Leave(gen, exc, LoopExit(exc))
          /\ UNCHANGED <<refEvents, trace>>
    /\ last' = Did("read", "none")
    /\ UNCHANGED <<scripts, config, self, lib, events, fed>>

\* Any recognizer: every response to every frame.
AnyResponse == [id \in 1..MaxFrames |-> Responses]

GenRead == Read(MaxFrames, AnyResponse)

\* audio_callback(data)
GenSink ==
    /\ gen.pc = "sink"
    /\ \E outcome \in SinkOutcomes(gen.cb) :
         LET to == AfterSink(outcome)
         IN gen' = IF to = "stopped" THEN Leave(gen, "KeyboardInterrupt", LoopExit("KeyboardInterrupt"))
                   ELSE IF to = "feed" THEN [gen EXCEPT !.pc = "feed"]
                   ELSE Leave(gen, "SinkError", LoopExit("SinkError"))
    /\ trace' = Append(trace, [op |-> "sink", frame |-> gen.data.id])
    /\ last' = Did("sink", "none")
    /\ UNCHANGED <<scripts, config, self, lib, events, refEvents, fed>>

\* AcceptWaveform(data) and the result that follows; an event is handed to
\* the consumer through the yield of run().
GenFeed ==
    /\ gen.pc = "feed"
    /\ LET c == Classify(gen.data.resp)
           to == AfterFeed(c.kind)
       IN /\ gen' = IF to = "stopped" THEN Leave(gen, "KeyboardInterrupt", LoopExit("KeyboardInterrupt"))
                    ELSE IF to \in {"read", "yielded"} THEN [gen EXCEPT !.pc = to]
                    ELSE Leave(gen, "RecognizerError", LoopExit("RecognizerError"))
          /\ events' = events \o Emitted(gen.data)
    /\ fed' = Append(fed, [frame |-> gen.data.id, accept |-> gen.data.resp.accept,
                          fetch |-> Classify(gen.data.resp).fetch])
    /\ trace' = Append(trace, [op |-> "feed", frame |-> gen.data.id])
    /\ last' = Did("feed", "none")
    /\ UNCHANGED <<scripts, config, self, lib, refEvents>>

\* finally: self.cleanup()
GenFinally ==
    /\ gen.pc = "finally"
    /\ \E outs \in CleanupOuts :
         LET r == cleanup(self, lib, outs)
         IN /\ self' = r.s
            /\ lib' = r.l
            /\ last' = [Did("cleanup", r.err) EXCEPT !.order = r.order]
    /\ gen' = [gen EXCEPT !.pc = "exit", !.cleanups = @ + 1]
    /\ UNCHANGED <<scripts, config, events, refEvents, trace, fed>>

\* The generator ends: the caller of next() or close() sees how.
Surfaced(pending) ==
    CASE pending = "return" -> "StopIteration"
      [] pending = "GeneratorExit" -> "closed"
      [] OTHER -> pending

GenExit ==
    /\ gen.pc = "exit"
    /\ gen' = [gen EXCEPT !.pc = "done", !.surfaced = Surfaced(gen.pending)]
    /\ UNCHANGED <<scripts, config, self, lib, events, refEvents, trace, fed, last>>

Next ==
    \/ \E cb \in Callbacks : RunCall(cb)
    \/ \E cb \in Callbacks : StreamCall(cb)
    \/ GenNext
    \/ GenClose
    \/ CallLoadModel
    \/ CallSetupAudioStream
    \/ CallStartRecognition
    \/ CallCleanup
    \/ GenLoad
    \/ GenSetup
    \/ GenStart
    \/ GenCheck
    \/ GenRead
    \/ GenSink
    \/ GenFeed
    \/ GenFinally
    \/ GenExit

Spec == Init /\ [][Next]_vars

\* ------------------------------------------------- a scripted recognizer
\* A recognizer that has text for every frame and reports completion on
\* every StubK-th frame: Result() gives "hello world", PartialResult() "hel".
FinalText == <<"hello", " ", "world">>

PartialText == <<"h", "e", "l">>

StubResponse(id) ==
    IF id % StubK = 0 THEN [accept |-> "true", payload |-> [ok |-> TRUE, key |-> "text", val |-> FinalText]]
    ELSE [accept |-> "false", payload |-> [ok |-> TRUE, key |-> "partial", val |-> PartialText]]

StubResponses == [id \in 1..StubFrames |-> {StubResponse(id)}]

StubRead == Read(StubFrames, StubResponses)

\* run() on a session whose recognizer is the scripted one.
NextStub ==
    \/ \E cb \in Callbacks : RunCall(cb)
    \/ GenNext
    \/ GenClose
    \/ GenLoad
    \/ GenSetup
    \/ GenStart
    \/ GenCheck
    \/ StubRead
    \/ GenSink
    \/ GenFeed
    \/ GenFinally
    \/ GenExit

SpecStub == Init /\ [][NextStub]_vars

\* ------------------------------------------------------- fix.py: check()
Hosts == <<"127.0.0.1", "localhost">>

\* Raw responses of the server, as the words of the decoded text.
RawTexts ==
    {<<>>,
     <<"HTTP/1.1", "101", "Switching", "Protocols", "CRLF", "Upgrade:", "websocket">>,
     <<"HTTP/1.1", "101", "SWITCHING", "PROTOCOLS">>,
     <<"HTTP/1.1", "101", "Switching", "Protocols">>,
     <<"HTTP/1.1", "200", "OK", "CRLF", "CRLF", "upgrade:", "websocket">>,
     <<"HTTP/1.1", "101", "Web", "Socket", "Protocol", "Handshake">>,
     <<"HTTP/1.1", "400", "Bad", "Request", "CRLF", "Upgrade:", "WebSocket">>,
     <<"HTTP/1.1", "426", "Upgrade", "Required", "CRLF", "Upgrade:", "h2c">>,
     <<"HTTP/1.1", "200", "OK">>,
     <<"HTTP/1.1", "404", "Not", "Found">>,
     <<"binary">>}

\* str.lower(), word by word.
LowerWord(w) ==
    CASE w = "Switching" -> "switching"
      [] w = "SWITCHING" -> "switching"
      [] w = "Protocols" -> "protocols"
      [] w = "PROTOCOLS" -> "protocols"
      [] w = "Upgrade:" -> "upgrade:"
      [] w = "Upgrade" -> "upgrade"
      [] w = "WebSocket" -> "websocket"
      [] w = "HTTP/1.1" -> "http/1.1"
      [] w = "Web" -> "web"
      [] w = "Socket" -> "socket"
      [] w = "Protocol" -> "protocol"
      [] w = "Handshake" -> "handshake"
      [] w = "Bad" -> "bad"
      [] w = "Request" -> "request"
      [] w = "Required" -> "required"
      [] w = "OK" -> "ok"
      [] w = "Not" -> "not"
      [] w = "Found" -> "found"
      [] w = "CRLF" -> "crlf"
      [] OTHER -> w

Lower(t) == [k \in 1..Len(t) |-> LowerWord(t[k])]

\* needle in text
Contains(t, needle) ==
    \E k \in 0..(Len(t) - Len(needle)) : SubSeq(t, k + 1, k + Len(needle)) = needle

\* Mutant: the response is not inspected.
LooksLikeHandshakeAlways(raw) == TRUE

\* "101 switching protocols" in lower or "upgrade: websocket" in lower
LooksLikeHandshake(raw) ==
    \/ Contains(Lower(raw), <<"101", "switching", "protocols">>)
    \/ Contains(Lower(raw), <<"upgrade:", "websocket">>)

ChkDone(c, value) == [c EXCEPT !.pc = "done", !.result = value]

\* for host in HOSTS: if tcp_connect(host, PORT): reachable = host; break
\* and, once no host is reachable, return False.
ChkTcp ==
    /\ chk.pc = "tcp"
    /\ \E ok \in BOOLEAN :
         LET c == [chk EXCEPT !.steps = Append(@, [op |-> "tcp", ok |-> ok])]
         IN chk' = IF ok THEN [c EXCEPT !.reachable = Hosts[chk.i], !.pc = "probe"]
                   ELSE IF chk.i < Len(Hosts) THEN [c EXCEPT !.i = @ + 1]
                   ELSE ChkDone(c, "False")
    /\ UNCHANGED <<session, fwd>>

\* raw = raw_upgrade_probe(...): None when the connection fails, else the
\* decoded response ("" when nothing was received in time).
ChkProbe ==
    /\ chk.pc = "probe"
    /\ \E raw \in {NoRaw} \cup {[none |-> FALSE, toks |-> t] : t \in RawTexts} :
         LET c == [chk EXCEPT !.raw = raw, !.steps = Append(@, [op |-> "probe", ok |-> ~raw.none])]
         IN chk' = IF raw.none THEN ChkDone(c, "False") ELSE [c EXCEPT !.pc = "inspect"]
    /\ UNCHANGED <<session, fwd>>

\* The test of the response; without a handshake check() returns False.
ChkInspect ==
    /\ chk.pc = "inspect"
    /\ chk' = IF LooksLikeHandshake(chk.raw.toks) THEN [chk EXCEPT !.pc = "connect"] ELSE ChkDone(chk, "False")
    /\ UNCHANGED <<session, fwd>>

\* try_websocket: async with ws_connect(uri, ...) as ws; an exception gives
\* (False, str(e)).
ChkConnect ==
    /\ chk.pc = "connect"
    /\ \E ok \in BOOLEAN :
         LET c == [chk EXCEPT !.steps = Append(@, [op |-> "ws", ok |-> ok])]
         IN chk' = IF ok THEN [c EXCEPT !.ws = "connected", !.pc = "ping"]
                   ELSE ChkDone([c EXCEPT !.ws = "failed"], "False")
    /\ UNCHANGED <<session, fwd>>

\* await ws.ping() in its own try: an exception is passed over.
ChkPing ==
    /\ chk.pc = "ping"
    /\ \E ok \in BOOLEAN : chk' = [chk EXCEPT !.ping = IF ok THEN "ok" ELSE "raised", !.pc = "close"]
    /\ UNCHANGED <<session, fwd>>

\* return True, "connected" leaves the async with: an exception of the
\* closing handshake is caught by the except of try_websocket.
ChkClose ==
    /\ chk.pc = "close"
    /\ \E ok \in BOOLEAN : chk' = ChkDone(chk, IF ok THEN "True" ELSE "False")
    /\ UNCHANGED <<session, fwd>>

NextCheck ==
    \/ ChkTcp
    \/ ChkProbe
    \/ ChkInspect
    \/ ChkConnect
    \/ ChkPing
    \/ ChkClose

\* The script runs on its own: no LiveTranscriber takes part.
InitCheck ==
    /\ Init
    /\ config = FullConfig

SpecCheck == InitCheck /\ [][NextCheck]_vars

\* ----------------------------------------- fakesound.py: stream_audio()
\* The event loop thread runs the coroutine and, while the coroutine is
\* suspended in an await, the sends the audio thread has scheduled; the audio
\* thread runs callback() while the microphone stream is active.
Media(n) == [event |-> "media", n |-> n]

Control(e) == [event |-> e, n |-> 0]

\* async with websockets.connect(WS_URL) as ws
FwdConnect ==
    /\ fwd.pc = "connect"
    /\ \E ok \in BOOLEAN :
         fwd' = IF ok THEN [fwd EXCEPT !.conn = "open", !.pc = "send_start"] ELSE [fwd EXCEPT !.pc = "done"]
    /\ UNCHANGED <<session, chk>>

\* await ws.send(json.dumps({"event": "start"}))
FwdSendStart ==
    /\ fwd.pc = "send_start"
    /\ fwd' = [fwd EXCEPT !.wire = Append(@, Control("start")), !.pc = "open_mic"]
    /\ UNCHANGED <<session, chk>>

\* with sd.InputStream(..., callback=callback): the audio thread starts; the
\* coroutine then waits in stop_event.wait().
FwdOpenMic ==
    /\ fwd.pc = "open_mic"
    /\ fwd' = [fwd EXCEPT !.mic = "on", !.pc = "waiting"]
    /\ UNCHANGED <<session, chk>>

\* callback(indata, ...) on the audio thread:
\* asyncio.run_coroutine_threadsafe(ws.send(msg), loop) hands the send to the
\* event loop and returns; the future is dropped.
FwdCallback ==
    /\ fwd.mic = "on"
    /\ fwd.blocks < MaxBlocks
    /\ fwd' = [fwd EXCEPT !.blocks = @ + 1, !.queue = Append(@, fwd.blocks + 1)]
    /\ UNCHANGED <<session, chk>>

\* The coroutine is suspended in an await, so the loop can run other tasks.
Suspended == fwd.pc \in {"waiting", "draining", "closing"}

\* The event loop runs a scheduled ws.send(msg): the message is written when
\* the connection is open, and the send raises (into the dropped future)
\* when it is not.
FwdLoopSend ==
    /\ Suspended
    /\ fwd.queue # <<>>
    /\ fwd' = [fwd EXCEPT !.queue = Tail(@),
                          !.wire = IF fwd.conn = "open" THEN Append(@, Media(Head(fwd.queue))) ELSE @]
    /\ UNCHANGED <<session, chk>>

\* Ctrl+C: the wait is cancelled and `except asyncio.CancelledError: pass`
\* resumes the coroutine, whatever is still scheduled on the loop.
FwdCancel ==
    /\ fwd.pc = "waiting"
    /\ fwd' = [fwd EXCEPT !.pc = "woken"]
    /\ UNCHANGED <<session, chk>>

\* The with block of sd.InputStream is left: the stream is stopped and closed.
FwdCloseMic ==
    /\ fwd.pc = "woken"
    /\ fwd' = [fwd EXCEPT !.mic = "closed", !.pc = "send_stop"]
    /\ UNCHANGED <<session, chk>>

\* await ws.send(json.dumps({"event": "stop"})): the message is written; the
\* await then either suspends with the connection open (flow control), or
\* returns at once and the async with block starts closing the connection.
FwdSendStop ==
    /\ fwd.pc = "send_stop"
    /\ \E suspends \in BOOLEAN :
         fwd' = IF suspends THEN [fwd EXCEPT !.wire = Append(@, Control("stop")), !.pc = "draining"]
                ELSE [fwd EXCEPT !.wire = Append(@, Control("stop")), !.conn = "closing", !.pc = "closing"]
    /\ UNCHANGED <<session, chk>>

\* The suspended send of stop returns; the async with block is left.
FwdDrained ==
    /\ fwd.pc = "draining"
    /\ fwd' = [fwd EXCEPT !.conn = "closing", !.pc = "closing"]
    /\ UNCHANGED <<session, chk>>

\* The closing handshake is over; asyncio.run cancels what is still scheduled.
FwdClosed ==
    /\ fwd.pc = "closing"
    /\ fwd' = [fwd EXCEPT !.conn = "closed", !.queue = <<>>, !.pc = "done"]
    /\ UNCHANGED <<session, chk>>

NextForward ==
    \/ FwdConnect
    \/ FwdSendStart
    \/ FwdOpenMic
    \/ FwdCallback
    \/ FwdLoopSend
    \/ FwdCancel
    \/ FwdCloseMic
    \/ FwdSendStop
    \/ FwdDrained
    \/ FwdClosed

InitForward ==
    /\ Init
    /\ config = FullConfig

SpecForward == InitForward /\ [][NextForward]_vars

\* ================================================================ claims
Ended == gen.kind = "run" /\ gen.started /\ gen.surfaced # "none"

\* C1: whenever the event sequence of a started run() terminates (normal end,
\* the consumer closing it mid-stream, or a fatal error of load_model,
\* setup_audio_stream, start_recognition or the loop), cleanup() has run
\* before the caller sees the termination: the caller finds the session
\* without a stream or PyAudio instance.
C1_CleanupBeforeTermination ==
    Ended => (gen.cleanups >= 1 /\ self.stream = None /\ self.p = None)

C1_Witness ==
    /\ gen.kind = "run"
    /\ gen.pc = "done"
    /\ gen.surfaced = "StopIteration"
    /\ Len(events) > 0
    /\ gen.cleanups = 1

\* The raw text of the result fetched for a frame: what dict.get gives for
\* the key of the branch taken.
RawText(resp) == Get(resp.payload, IF resp.accept = "true" THEN "text" ELSE "partial")

Blank(resp) == resp.accept \in {"true", "false"} /\ resp.payload.ok /\ Strip(RawText(resp)) = <<>>

JustFed == Len(fed) > 0 /\ fed[Len(fed)].frame = gen.data.id

\* C2: every frame fed to the recognizer yields at most one event, every
\* yielded event's text is non-empty after trimming, and a frame whose result
\* text is empty or whitespace-only yields no event.
C2_AtMostOneNonEmptyEventPerFrame ==
    /\ \A i \in 1..Len(events) :
         /\ Strip(events[i].text) # <<>>
         /\ \E k \in 1..Len(fed) : fed[k].frame = events[i].frame
         /\ \A j \in 1..Len(events) : events[j].frame = events[i].frame => j = i
    /\ (JustFed /\ Blank(gen.data.resp)) => \A i \in 1..Len(events) : events[i].frame # gen.data.id

C2_Witness ==
    /\ JustFed
    /\ Blank(gen.data.resp)
    /\ gen.data.resp.payload.val = <<" ">>
    /\ gen.data.id = 2
    /\ Len(events) = 1

\* C3: an event yielded for a frame is final exactly when AcceptWaveform
\* reported completion for that frame, and partial exactly when it did not.
C3_FinalIffCompletion ==
    \A i \in 1..Len(events) :
        \E k \in 1..Len(fed) :
            /\ fed[k].frame = events[i].frame
            /\ \/ fed[k].accept = "true" /\ events[i].type = "final"
               \/ fed[k].accept = "false" /\ events[i].type = "partial"

C3_Witness ==
    /\ Len(events) = 2
    /\ events[1].type = "final"
    /\ events[2].type = "partial"

RecognizerRaises(resp) ==
    \/ resp.accept = "raise"
    \/ resp.accept \in {"true", "false"} /\ ~resp.payload.ok

\* C4: a recognizer error on a frame (AcceptWaveform or the result fetch
\* raising) does not end the loop: the next step is the read of the next
\* frame, nothing is in flight and no event is yielded, however many frames
\* failed before.
C4_RecognizerErrorContinues ==
    [][(gen.pc = "feed" /\ RecognizerRaises(gen.data.resp))
        => (gen'.pc = "read" /\ gen'.pending = "none" /\ gen'.raised = "none" /\ events' = events)]_vars

C4_Witness ==
    /\ Len(fed) = 2
    /\ fed[1].accept = "raise"
    /\ fed[2].accept = "raise"
    /\ gen.pc = "read"
    /\ gen.pending = "none"

\* C5: with a sink that raises on every call, the events yielded are those a
\* loop without a sink yields for the same frames and recognizer responses,
\* and the sink's error is never in flight nor surfaced.
C5_FailingSinkChangesNothing ==
    gen.cb = "failing" =>
        /\ gen.pc \notin {"sink", "feed"} => events = refEvents
        /\ gen.raised # "SinkError"
        /\ gen.pending # "SinkError"
        /\ gen.surfaced # "SinkError"

C5_Witness ==
    /\ gen.cb = "failing"
    /\ gen.pc = "yielded"
    /\ Len(events) = 2
    /\ Len(trace) = 6

\* C6: when the consumer closes the generator while it is suspended after an
\* event, cleanup() runs exactly once for that run: not before the finally
\* block, once from it.
C6_CloseCleansUpOnce ==
    (gen.kind = "run" /\ gen.raised = "GeneratorExit") =>
        /\ gen.pc \in {"finally", "exit", "done"}
        /\ gen.pc = "finally" => gen.cleanups = 0
        /\ gen.pc \in {"exit", "done"} => gen.cleanups = 1
        /\ gen.pc = "done" => gen.surfaced = "closed"

C6_Witness ==
    /\ gen.kind = "run"
    /\ gen.pc = "done"
    /\ gen.raised = "GeneratorExit"
    /\ gen.surfaced = "closed"
    /\ gen.cleanups = 1
    /\ Len(events) >= 1

\* cleanup() has just completed: called by the caller, or by the finally
\* block of run().
CleanedUp == last.op = "cleanup"

StreamFirst(order) == order \in {<<>>, <<"stream">>, <<"pa">>, <<"stream", "pa">>}

\* C7 as stated: after cleanup() completes the session holds neither the
\* audio resources nor the recognizer and the model, the audio released
\* first.
C7_AllResourcesReleased ==
    CleanedUp =>
        /\ self.stream = None
        /\ self.p = None
        /\ self.recognizer = "None"
        /\ self.model = "None"
        /\ StreamFirst(last.order)

\* C7, amended: after cleanup() completes the session holds no stream and no
\* PyAudio instance, the ones it held are closed, the stream before the
\* PyAudio instance; the model and the recognizer are left as they were.
C7_AudioReleasedModelKept ==
    /\ [](CleanedUp => (self.stream = None /\ self.p = None /\ StreamFirst(last.order)))
    /\ [][last'.op = "cleanup" =>
            /\ self.stream \notin lib'.streams
            /\ self.p \notin lib'.open
            /\ self'.model = self.model
            /\ self'.recognizer = self.recognizer]_vars

C7_Witness ==
    /\ CleanedUp
    /\ last.order = <<"stream", "pa">>
    /\ self.stream = None
    /\ self.p = None
    /\ self.model = "Model"
    /\ self.recognizer = "Rec"

\* C8: in every state cleanup() raises no error and afterwards no audio stream
\* and no PyAudio instance remains open.
C8_CleanupLeavesNothingOpen ==
    CleanedUp => (last.err = "none" /\ lib.streams = {} /\ lib.open = {})

\* C9: when the blocking read fails mid-stream with an error other than an
\* interrupt, the loop is over (nothing more is read, passed to the sink, fed
\* or yielded), cleanup() runs, and the caller sees that same error, after
\* cleanup has completed.
C9_ReadErrorIsFatalAfterCleanup ==
    /\ []((gen.kind = "run" /\ gen.raised = "ReadError") =>
            /\ gen.pc \in {"finally", "exit", "done"}
            /\ gen.pending = "ReadError"
            /\ gen.pc = "finally" => (gen.cleanups = 0 /\ gen.surfaced = "none")
            /\ gen.pc = "exit" => (gen.cleanups = 1 /\ gen.surfaced = "none" /\ self.stream = None /\ self.p = None)
            /\ gen.pc = "done" => (gen.cleanups = 1 /\ gen.surfaced = "ReadError"))
    /\ [][(gen.raised = "ReadError" /\ gen'.raised = "ReadError")
            => UNCHANGED <<events, trace, fed>>]_vars

C9_Witness ==
    /\ gen.kind = "run"
    /\ gen.pc = "done"
    /\ gen.raised = "ReadError"
    /\ gen.surfaced = "ReadError"
    /\ gen.nread = 1
    /\ Len(events) = 1
    /\ gen.cleanups = 1

Entry(op, n) == [op |-> op, frame |-> n]

\* C10: with a sink, the sink is called with a frame before that frame is fed
\* to the recognizer, the sink sees the frames in the order they were read,
\* and the sink call for frame n is over before frame n+1 is read.
C10_SinkBeforeFeedInOrder ==
    gen.cb # "none" =>
        \A i \in 1..Len(trace) :
            /\ trace[i].op = "feed" =>
                 \E j \in 1..(i - 1) : trace[j] = Entry("sink", trace[i].frame)
            /\ trace[i].op = "sink" =>
                 /\ i > 1 /\ trace[i - 1] = Entry("read", trace[i].frame)
                 /\ \A j \in 1..(i - 1) : trace[j].op = "sink" => trace[j].frame < trace[i].frame
            /\ (trace[i].op = "read" /\ trace[i].frame > 1) =>
                 \E j \in 1..(i - 1) : trace[j] = Entry("sink", trace[i].frame - 1)

C10_Witness ==
    /\ gen.cb = "any"
    /\ trace = <<Entry("read", 1), Entry("sink", 1), Entry("feed", 1),
                 Entry("read", 2), Entry("sink", 2), Entry("feed", 2)>>


\* C11: with a sink, every frame the read returned is passed to the sink:
\* once the loop is past its sink call, the trace holds a sink entry after
\* each read entry for the same frame, whether the recognizer then raises on
\* the frame, yields nothing for it, or yields an event.
C11_EveryReadFrameReachesSink ==
    gen.cb # "none" =>
        \A i \in 1..Len(trace) :
            trace[i].op = "read" =>
                \/ \E j \in (i + 1)..Len(trace) : trace[j] = Entry("sink", trace[i].frame)
                \/ i = Len(trace) /\ gen.pc = "sink"

C11_Witness ==
    /\ gen.cb = "any"
    /\ Len(fed) = 2
    /\ fed[1].accept = "raise"
    /\ Blank(gen.data.resp)
    /\ events = <<>>
    /\ \A n \in 1..2 : \E j \in 1..Len(trace) : trace[j] = Entry("sink", n)


Finals == {i \in 1..Len(events) : events[i].type = "final"}

Partials == {i \in 1..Len(events) : events[i].type = "partial"}

\* C12: with a recognizer that has text for every frame and reports
\* completion on exactly every StubK-th frame, after N frames were fed the
\* events are N: N div StubK final events with the final text and the other
\* N - N div StubK partial events with the partial text.
C12_FinalEveryKthFrame ==
    LET N == Len(fed)
    IN /\ Cardinality(Finals) = N \div StubK
       /\ Cardinality(Partials) = N - (N \div StubK)
       /\ Len(events) = N
       /\ \A i \in Finals : events[i].text = FinalText
       /\ \A i \in Partials : events[i].text = PartialText

C12_Witness ==
    /\ Len(fed) = StubFrames
    /\ Len(events) = StubFrames
    /\ events[StubK].type = "final"
    /\ events[StubK].text = FinalText
    /\ events[1].type = "partial"
    /\ Cardinality(Finals) = StubFrames \div StubK


InLoop == gen.pc \in {"read", "sink", "feed", "yielded"}

\* The session holds a stream and a recognizer.
Ready == self.stream # None /\ self.recognizer # "None"

\* C13: transcribe_stream started on a session without a stream or without a
\* recognizer raises RuntimeError at its guard: nothing has been read, passed
\* to the sink, fed or yielded, and the generator is over; the loop is only
\* ever entered with both a stream and a recognizer.
C13_NotReadyFailsBeforeLoop ==
    /\ [][(gen.pc = "check" /\ ~Ready) =>
            /\ gen'.raised = "RuntimeError"
            /\ gen'.pending = "RuntimeError"
            /\ gen'.pc = IF gen.kind = "run" THEN "finally" ELSE "exit"
            /\ gen'.nread = 0
            /\ trace' = <<>>
            /\ events' = <<>>]_vars
    /\ [](InLoop => Ready)
    /\ []((gen.kind = "stream" /\ gen.raised = "RuntimeError") =>
            /\ gen.pc \in {"exit", "done"}
            /\ gen.nread = 0 /\ trace = <<>> /\ events = <<>> /\ fed = <<>>
            /\ gen.pc = "done" => gen.surfaced = "RuntimeError")

C13_Witness ==
    /\ gen.kind = "stream"
    /\ gen.pc = "done"
    /\ gen.surfaced = "RuntimeError"
    /\ self.stream # None
    /\ self.recognizer = "None"
    /\ trace = <<>>


\* setup_audio_stream has just been called on a session without a model.
SetupWithoutModel == last.op = "setup_audio_stream" /\ self.model = "None"

\* C14 as stated: setup_audio_stream on a session whose model has not been
\* loaded fails with a state error, and no PyAudio instance and no stream is
\* held afterwards.
C14_SetupRefusedWithoutModel ==
    SetupWithoutModel =>
        /\ last.err = "RuntimeError"
        /\ self.stream = None
        /\ self.p = None

\* C14, amended: setup_audio_stream does not look at the model. On a session
\* without a model it raises no state error: it fails only as the device
\* fails, and when it returns the session holds an open PyAudio instance and
\* an open stream.
C14_SetupIgnoresModel ==
    SetupWithoutModel =>
        /\ last.err \in {"none", "DeviceError", "NoOption(audio)"}
        /\ last.err = "none" =>
             /\ self.stream # None /\ self.stream \in lib.streams
             /\ self.p # None /\ self.p \in lib.open

C14_Witness ==
    /\ SetupWithoutModel
    /\ last.err = "none"
    /\ self.stream # None
    /\ self.p \in lib.open
    /\ self.recognizer = "None"


\* C15 as stated: a run() on a session whose previous run() ended with its
\* cleanup opens no device, reads no frame and yields no event.
C15_ClosedSessionUnusable ==
    gen.rerun =>
        /\ self.stream = None
        /\ self.p = None
        /\ gen.nread = 0
        /\ events = <<>>

\* C15, amended: a session whose run() ended with its cleanup can be run
\* again. The setup of the new run() opens a PyAudio instance and a stream
\* that were not open before, its loop reads from that open stream with a
\* recognizer, and when it terminates cleanup() has run and the session holds
\* no stream and no PyAudio instance.
C15_RerunStartsOver ==
    /\ [][(gen.rerun /\ gen.pc = "setup" /\ gen'.pc = "start") =>
            /\ self'.p \in lib'.open \ lib.open
            /\ self'.stream \in lib'.streams \ lib.streams]_vars
    /\ []((gen.rerun /\ InLoop) => (Ready /\ self.stream \in lib.streams /\ self.p \in lib.open))
    /\ []((gen.rerun /\ Ended) => (gen.cleanups = 1 /\ self.stream = None /\ self.p = None))

C15_Witness ==
    /\ gen.rerun
    /\ gen.pc = "done"
    /\ gen.surfaced = "StopIteration"
    /\ gen.nread = 2
    /\ Len(events) = 2
    /\ gen.cleanups = 1
    /\ lib.made = 2


LoadErrors == {"NoOption(MODEL_PATH)", "FileNotFoundError", "ModelError"}

\* load_model raised inside the run() in hand.
LoadFailed == gen.kind = "run" /\ gen.raised \in LoadErrors

\* C16: when load_model fails inside run() (key or path missing, or Model()
\* raising), the run is over: from the failing call on it opens no PyAudio
\* instance and creates no recognizer, it reads, feeds and yields nothing,
\* and the caller sees the error of load_model after cleanup; a run() gets
\* past load_model only with a model path and a model.
C16_LoadFailureEndsRun ==
    /\ [](LoadFailed =>
            /\ gen.pc \in {"finally", "exit", "done"}
            /\ gen.pending = gen.raised
            /\ gen.nread = 0 /\ trace = <<>> /\ fed = <<>> /\ events = <<>>
            /\ gen.pc = "done" => (gen.surfaced = gen.raised /\ gen.cleanups = 1))
    /\ [][(gen.kind = "run" /\ gen.pc \in {"load", "finally", "exit"} /\ LoadFailed') =>
            /\ lib'.made = lib.made
            /\ self'.recognizer = self.recognizer
            /\ self'.model = self.model]_vars
    /\ []((gen.kind = "run" /\ gen.pc \in {"setup", "start", "check", "read", "sink", "feed", "yielded"}) =>
            /\ config.has_model_path
            /\ config.model_path # ""
            /\ self.model = "Model")

C16_Witness ==
    /\ LoadFailed
    /\ gen.pc = "done"
    /\ gen.raised = "ModelError"
    /\ gen.surfaced = "ModelError"
    /\ gen.cleanups = 1
    /\ lib.made = 0
    /\ self.recognizer = "None"

MissingKeyErrors == {"NoOption(MODEL_PATH)", "NoOption(audio)"}

MissingKey == ~config.has_model_path \/ ~config.has_audio

\* C17 as stated: a configuration that lacks a required key fails at
\* ConfigManager construction, so that no method is ever called on a session
\* made from it, and no method of a session is the first to detect a missing
\* key.
C17_MissingKeyFailsConstruction ==
    /\ MissingKey => last.op = "init"
    /\ last.err \notin MissingKeyErrors

\* C17, amended: ConfigManager construction fails for a file that is not
\* found or lacks a required section, and then no session exists; a file that
\* has the sections passes construction whatever keys it lacks, and the
\* missing key is detected by the method that reads it: load_model for the
\* model path, setup_audio_stream or start_recognition for the audio keys.
C17_MissingKeyDetectedOnRead ==
    /\ (~config.found \/ ~config.sections) =>
         (last.op = "init" /\ last.err # "none" /\ gen = NoGen /\ self = NewSession /\ lib.made = 0)
    /\ (config.found /\ config.sections /\ last.op = "init") => last.err = "none"
    /\ last.err = "NoOption(MODEL_PATH)" => (last.op = "load_model" /\ ~config.has_model_path)
    /\ last.err = "NoOption(audio)" =>
         (last.op \in {"setup_audio_stream", "start_recognition"} /\ ~config.has_audio)
    /\ (last.op = "load_model" /\ ~config.has_model_path) => last.err = "NoOption(MODEL_PATH)"
    /\ (last.op = "setup_audio_stream" /\ ~config.has_audio) => last.err \in {"DeviceError", "NoOption(audio)"}

C17_Witness ==
    /\ ~config.has_audio
    /\ last.op = "setup_audio_stream"
    /\ last.err = "NoOption(audio)"
    /\ self.model = "Model"
    /\ self.p \in lib.open
    /\ self.stream = None


\* C18: a frame for which AcceptWaveform reported completion has Result()
\* fetched and nothing else, a frame for which it did not has PartialResult()
\* fetched and nothing else; when the final text is empty after trimming the
\* frame yields no event, final or partial.
C18_NoPartialFallback ==
    /\ \A k \in 1..Len(fed) :
         /\ fed[k].accept = "true" => fed[k].fetch = <<"Result">>
         /\ fed[k].accept = "false" => fed[k].fetch = <<"PartialResult">>
         /\ fed[k].accept \in {"raise", "interrupt"} => fed[k].fetch = <<>>
    /\ (JustFed /\ gen.data.resp.accept = "true" /\ Blank(gen.data.resp)) =>
         \A i \in 1..Len(events) : events[i].frame # gen.data.id

C18_Witness ==
    /\ JustFed
    /\ gen.data.resp.accept = "true"
    /\ gen.data.resp.payload = [ok |-> TRUE, key |-> "text", val |-> <<" ">>]
    /\ fed[Len(fed)].fetch = <<"Result">>
    /\ events = <<>>
    /\ gen.pc = "read"


\* AcceptWaveform and the result call that follows both returned.
CompletedOk(resp) == resp.accept \in {"true", "false"} /\ resp.payload.ok

\* C19: a frame on which AcceptWaveform or the result call raises yields no
\* event, and the events never outnumber the frames on which both returned:
\* the events grow by at most one, and only in the recognizer step of such a
\* frame.
C19_NoEventForFailedFrame ==
    /\ [][(gen.pc = "feed" /\ RecognizerRaises(gen.data.resp)) => events' = events]_vars
    /\ [][Len(events') <= Len(events) + (IF gen.pc = "feed" /\ CompletedOk(gen.data.resp) THEN 1 ELSE 0)]_vars
    /\ [](Len(events) <= Cardinality({k \in 1..Len(fed) : fed[k].accept \in {"true", "false"}}))
    /\ []((JustFed /\ RecognizerRaises(gen.data.resp)) =>
            \A i \in 1..Len(events) : events[i].frame # gen.data.id)

C19_Witness ==
    /\ JustFed
    /\ gen.data.id = 2
    /\ gen.data.resp.accept = "true"
    /\ ~gen.data.resp.payload.ok
    /\ Len(events) = 1
    /\ events[1].frame = 1
    /\ gen.pc = "read"


\* C20: at every moment at most one PyAudio instance and at most one stream
\* the session opened is open, and every open one is the one the session
\* holds.
C20_AtMostOneHandleOpen ==
    /\ Cardinality(lib.open) <= 1
    /\ Cardinality(lib.streams) <= 1
    /\ lib.open \subseteq {self.p}
    /\ lib.streams \subseteq {self.stream}


\* start_recognition has just run on a session with a model, and
\* KaldiRecognizer(...) returned.
RecognizerBuilt ==
    /\ last.op = "start_recognition"
    /\ self.model = "Model"
    /\ last.err \notin {"RecognizerError", "NoOption(audio)"}

\* C21: when start_recognition runs on a session with a model and the
\* recognizer is constructed, the call returns without an error and the
\* session holds the recognizer, whatever the word-timing block met;
\* SetWords is called only when the config asked for word timing (and the
\* recognizer has the method), and nothing else is called on the recognizer.
C21_WordTimingBestEffort ==
    /\ RecognizerBuilt => (last.err = "none" /\ self.recognizer = "Rec")
    /\ last.op = "start_recognition" =>
         /\ last.order \in {<<>>, <<"SetWords">>}
         /\ last.order = <<"SetWords">> => (last.arg.wanted = "true" /\ last.arg.supported)

C21_Witness ==
    /\ RecognizerBuilt
    /\ last.arg = [wanted |-> "true", supported |-> TRUE, raises |-> TRUE]
    /\ last.order = <<"SetWords">>
    /\ last.err = "none"
    /\ self.recognizer = "Rec"


\* The response has a 101 status or an Upgrade: websocket header.
Has101OrUpgrade(t) ==
    \E k \in 1..Len(t) :
        \/ t[k] = "101"
        \/ k < Len(t) /\ LowerWord(t[k]) = "upgrade:" /\ LowerWord(t[k + 1]) = "websocket"

WsStep == {k \in 1..Len(chk.steps) : chk.steps[k].op = "ws"}

\* C22: check() calls websockets.connect at most once, and only after a TCP
\* connect succeeded and then the raw probe returned a response with a 101
\* status or an Upgrade: websocket header; it returns True only when that
\* connection was made, and False whenever it returns otherwise.
C22_WebsocketOnlyAfterHandshake ==
    /\ \A k \in WsStep :
         /\ k > 2
         /\ chk.steps[k - 1] = [op |-> "probe", ok |-> TRUE]
         /\ chk.steps[k - 2] = [op |-> "tcp", ok |-> TRUE]
         /\ ~chk.raw.none
         /\ Has101OrUpgrade(chk.raw.toks)
         /\ chk.reachable # ""
    /\ Cardinality(WsStep) <= 1
    /\ (chk.ws # "untried") = (WsStep # {})
    /\ chk.result = "True" => chk.ws = "connected"
    /\ chk.pc = "done" => chk.result \in {"True", "False"}
    /\ (chk.pc = "done" /\ chk.ws # "connected") => chk.result = "False"
    /\ chk.pc # "done" => chk.result = "none"

C22_Witness ==
    /\ chk.pc = "done"
    /\ chk.result = "True"
    /\ chk.reachable = "localhost"
    /\ chk.raw.toks = <<"HTTP/1.1", "400", "Bad", "Request", "CRLF", "Upgrade:", "WebSocket">>
    /\ chk.ping = "raised"


\* The loop was left by a KeyboardInterrupt.
Interrupted == gen.raised = "KeyboardInterrupt"

\* C23: the events come in the order of their frames, and the frames fed to
\* the recognizer are the frames read, each once and in read order, with or
\* without a sink and whatever the sink's calls raised: only the frame in
\* hand, or the frame during whose sink call the user interrupted, is read
\* and not fed.
C23_FramesFedOnceInOrder ==
    /\ \A i, j \in 1..Len(events) : i < j => events[i].frame < events[j].frame
    /\ \A k \in 1..Len(fed) : fed[k].frame = k
    /\ Len(fed) \in {gen.nread - 1, gen.nread}
    /\ Len(fed) = gen.nread - 1 =>
         \/ gen.pc \in {"sink", "feed"}
         \/ Interrupted /\ trace[Len(trace)].op = "sink"
    /\ \A k \in 1..gen.nread : Cardinality({i \in 1..Len(trace) : trace[i] = Entry("read", k)}) = 1
    /\ Cardinality({i \in 1..Len(trace) : trace[i].op = "read"}) = gen.nread

C23_Witness ==
    /\ gen.cb = "failing"
    /\ gen.pc = "read"
    /\ gen.nread = 2
    /\ Len(fed) = 2
    /\ Len(events) = 2
    /\ events[1].frame = 1
    /\ events[2].frame = 2

\* C24: a KeyboardInterrupt in the read, the sink call or the recognizer
\* step ends the loop at once: the generator of run() goes to its finally
\* block with nothing in flight, nothing more is read, fed or yielded,
\* cleanup() runs once and the consumer sees the sequence end; the
\* per-frame handler of the recognizer step does not catch it.
C24_InterruptEndsSequence ==
    /\ []((gen.kind = "run" /\ Interrupted) =>
            /\ gen.pc \in {"finally", "exit", "done"}
            /\ gen.pending = "return"
            /\ gen.pc = "finally" => gen.cleanups = 0
            /\ gen.pc = "exit" => gen.cleanups = 1
            /\ gen.pc = "done" => (gen.cleanups = 1 /\ gen.surfaced = "StopIteration"))
    /\ [][(Interrupted /\ Interrupted') =>
            (UNCHANGED <<events, trace, fed>> /\ gen'.nread = gen.nread)]_vars
    /\ [][(gen.pc = "feed" /\ gen.data.resp.accept = "interrupt") =>
            (Interrupted' /\ gen'.pc = (IF gen.kind = "run" THEN "finally" ELSE "exit") /\ events' = events)]_vars

C24_Witness ==
    /\ gen.kind = "run"
    /\ Interrupted
    /\ gen.data.resp.accept = "interrupt"
    /\ gen.data.id = 2
    /\ gen.pc = "done"
    /\ gen.surfaced = "StopIteration"
    /\ gen.cleanups = 1
    /\ Len(events) = 1
    /\ self.stream = None


\* C25: the messages written to the websocket are start, then media
\* messages, then stop: start is the first message and only the first, and
\* nothing follows stop.
C25_StartMediaStop ==
    \A i \in 1..Len(fwd.wire) :
        /\ (fwd.wire[i].event = "start") = (i = 1)
        /\ fwd.wire[i].event = "stop" => i = Len(fwd.wire)

====
